---- MODULE Spec2Model ----
(***************************************************************************)
(* Model of main.py: the leveled, optionally colourised logger built on    *)
(* Python's logging module (setup_logger, log_debug/info/warn/error), the  *)
(* requirement checker (command_exists, check_requirements) and main.      *)
(*                                                                         *)
(* Text is modelled as a sequence of pieces.  The level spec, the level    *)
(* names, the labels and the ANSI codes are sequences of single            *)
(* characters (ESC stands for the character \x1b); a message is a sequence *)
(* of opaque pieces of plain text, none of which holds an escape.          *)
(***************************************************************************)
EXTENDS Integers, Sequences, FiniteSets, TLC

VARIABLES
    pc,           \* position of main ("lib" when the functions are called directly)
    args,         \* the namespace parse_args returned: <<>> or <<[log_level, no_color]>>
    PATH,         \* the names shutil.which resolves
    handlers,     \* formatter kind of each handler of logging.getLogger(__name__)
    propagate,    \* get_logger().propagate
    rootLevel,    \* level of the root logger
    rootHandlers, \* number of handlers of the root logger
    out,          \* the lines written to sys.stderr, oldest first
    last,         \* the call that was made last, with what it returned
    events,       \* the calls main has completed, in order
    exitStatus,   \* <<>> while the process runs, <<status>> once it has ended
    ncalls        \* number of direct calls made

vars == <<pc, args, PATH, handlers, propagate, rootLevel, rootHandlers, out,
          last, events, exitStatus, ncalls>>

-----------------------------------------------------------------------------
(* Bounds *)

MaxCalls == 3
MaxChecks == 2
MaxReqs == 2

-----------------------------------------------------------------------------
(* logging's numeric levels *)

NOTSET == 0
DEBUG == 10
INFO == 20
WARN == 30
ERROR == 40
CRITICAL == 50

None == <<>>
Some(x) == <<x>>

-----------------------------------------------------------------------------
(* REQUIREMENTS *)

REQUIREMENTS ==
    << [name |-> "pandoc", url |-> "https://www.pandoc.org"],
       [name |-> "context", url |-> "https://wiki.contextgarden.net"],
       [name |-> "gs", url |-> "https://www.ghostscript.com"] >>

Programs == {REQUIREMENTS[i].name : i \in DOMAIN REQUIREMENTS}

Entries == {REQUIREMENTS[i] : i \in DOMAIN REQUIREMENTS}

RECURSIVE SeqsUpTo(_, _)
SeqsUpTo(S, n) ==
    IF n = 0 THEN {<<>>}
    ELSE LET shorter == SeqsUpTo(S, n - 1)
         IN  shorter \cup {Append(s, x) : s \in shorter, x \in S}

\* the requirement lists check_requirements is run on; REQUIREMENTS is the
\* list main runs it on
ReqLists == SeqsUpTo(Entries, MaxReqs) \cup {REQUIREMENTS}

-----------------------------------------------------------------------------
(* str.upper on the level spec *)

LowerCase == <<"a","b","c","d","e","f","g","h","i","j","k","l","m",
               "n","o","p","q","r","s","t","u","v","w","x","y","z">>
UpperCase == <<"A","B","C","D","E","F","G","H","I","J","K","L","M",
               "N","O","P","Q","R","S","T","U","V","W","X","Y","Z">>

UpperChar(c) ==
    IF \E i \in DOMAIN LowerCase : LowerCase[i] = c
    THEN UpperCase[CHOOSE i \in DOMAIN LowerCase : LowerCase[i] = c]
    ELSE c

LowerChar(c) ==
    IF \E i \in DOMAIN UpperCase : UpperCase[i] = c
    THEN LowerCase[CHOOSE i \in DOMAIN UpperCase : UpperCase[i] = c]
    ELSE c

upper(s) == [i \in 1..Len(s) |-> UpperChar(s[i])]

RECURSIVE Casings(_)
Casings(w) ==
    IF w = <<>> THEN {<<>>}
    ELSE {<<c>> \o t : c \in {LowerChar(Head(w)), UpperChar(Head(w))},
                       t \in Casings(Tail(w))}

\* the values of --log-level that are tried: every casing of these words
BaseWords ==
    { <<"d","e","b","u","g">>, <<"i","n","f","o">>, <<"w","a","r","n">>,
      <<"e","r","r","o","r">>, <<"b","o","g","u","s">>, <<>>,
      <<"i","n","f">>, <<"i","n","f","o","s">>, <<"d","e","b","u">>,
      <<" ","i","n","f","o">>, <<"1","0">> }

LevelSpecs == UNION {Casings(w) : w \in BaseWords}

-----------------------------------------------------------------------------
(* ColoredFormatter *)

ESC == "ESC"

GRAY == <<ESC, "[", "3", "8", ";", "1", "m">>
BLUE == <<ESC, "[", "3", "4", ";", "1", "m">>
YELLOW == <<ESC, "[", "3", "3", ";", "1", "m">>
RED == <<ESC, "[", "3", "1", ";", "1", "m">>
BOLD == <<ESC, "[", "4", "m">>
RESET == <<ESC, "[", "0", "m">>

LevelField == "%(levelname)-7s"
MessageField == "%(message)s"
FieldWidth == 7

LEVEL_FORMAT == <<"[", LevelField, "]">>
MESSAGE_FORMAT == <<MessageField>>

FORMATS ==
    [l \in {INFO, DEBUG, WARN, CRITICAL, ERROR} |->
        CASE l = INFO  -> GRAY \o LEVEL_FORMAT \o RESET \o <<" ">> \o GRAY \o MESSAGE_FORMAT \o RESET
          [] l = DEBUG -> BLUE \o LEVEL_FORMAT \o RESET \o <<" ">> \o BLUE \o MESSAGE_FORMAT \o RESET
          [] l = WARN  -> YELLOW \o BOLD \o LEVEL_FORMAT \o RESET \o <<" ">> \o YELLOW \o MESSAGE_FORMAT \o RESET
          [] l = CRITICAL -> YELLOW \o BOLD \o LEVEL_FORMAT \o RESET \o <<" ">> \o YELLOW \o MESSAGE_FORMAT \o RESET
          [] l = ERROR -> RED \o BOLD \o LEVEL_FORMAT \o RESET \o <<" ">> \o RED \o MESSAGE_FORMAT \o RESET]

\* logging.Formatter(None) formats with '%(message)s'
DefaultFormat == <<MessageField>>

\* the format installed by setup_logger when no_color is set
PlainFormat == <<"[", LevelField, "]", " ", MessageField>>

\* logging.getLevelName
getLevelName(levelno) ==
    CASE levelno = DEBUG -> <<"D","E","B","U","G">>
      [] levelno = INFO -> <<"I","N","F","O">>
      [] levelno = WARN -> <<"W","A","R","N","I","N","G">>
      [] levelno = ERROR -> <<"E","R","R","O","R">>
      [] levelno = CRITICAL -> <<"C","R","I","T","I","C","A","L">>
      [] OTHER -> <<"N","O","T","S","E","T">>

\* the conversion %-7s: left-justified, padded with spaces to the width
LJust(s, n) ==
    IF Len(s) >= n THEN s ELSE s \o [i \in 1..(n - Len(s)) |-> " "]

Expand(piece, record) ==
    CASE piece = LevelField -> LJust(getLevelName(record.levelno), FieldWidth)
      [] piece = MessageField -> record.msg
      [] piece = "%(levelname)s" -> getLevelName(record.levelno)
      [] piece = "%(name)s" -> <<"__main__">>
      [] OTHER -> <<piece>>

\* logging.Formatter(fmt).format(record)
RECURSIVE FormatWith(_, _)
FormatWith(fmt, record) ==
    IF fmt = <<>> THEN <<>>
    ELSE Expand(Head(fmt), record) \o FormatWith(Tail(fmt), record)

\* ColoredFormat with the DEBUG entry of FORMATS left out
ColoredFormatNoDebug(levelno) ==
    IF levelno \in DOMAIN FORMATS \ {DEBUG} THEN FORMATS[levelno] ELSE DefaultFormat

\* ColoredFormatter.format: FORMATS.get(record.levelno)
ColoredFormat(levelno) ==
    IF levelno \in DOMAIN FORMATS THEN FORMATS[levelno] ELSE DefaultFormat

\* logging.BASIC_FORMAT, the format of the handler basicConfig gives the root
BASIC_FORMAT == <<"%(levelname)s", ":", "%(name)s", ":", MessageField>>

\* the line a handler writes, by the formatter it was given; logging's
\* lastResort handler has no formatter and writes the bare message
HandlerFormat(kind, record) ==
    CASE kind = "plain" -> FormatWith(PlainFormat, record)
      [] kind = "colored" -> FormatWith(ColoredFormat(record.levelno), record)
      [] kind = "basic" -> FormatWith(BASIC_FORMAT, record)
      [] OTHER -> FormatWith(DefaultFormat, record)

Line(kind, record) ==
    [text |-> HandlerFormat(kind, record), by |-> kind,
     levelno |-> record.levelno, msg |-> record.msg]

-----------------------------------------------------------------------------
(* get_logger() and the log_* functions *)

\* Logger.getEffectiveLevel: the level of get_logger() is never set, so the
\* level of its parent, the root logger, decides
getEffectiveLevel == rootLevel

\* isEnabledFor with the comparison made strict
isEnabledForStrict(levelno) == levelno > getEffectiveLevel

\* Logger.isEnabledFor
isEnabledFor(levelno) == levelno >= getEffectiveLevel

\* Logger.callHandlers: every handler of the logger, then those of the root
\* when the logger propagates; when no handler was found at all, the
\* lastResort handler, whose level is WARNING
callHandlers(record) ==
    LET own == [i \in 1..Len(handlers) |-> Line(handlers[i], record)]
        inherited == IF propagate
                     THEN [i \in 1..rootHandlers |-> Line("basic", record)]
                     ELSE <<>>
        found == Len(handlers) + (IF propagate THEN rootHandlers ELSE 0)
    IN  IF found = 0
        THEN IF record.levelno >= WARN
             THEN <<Line("lastResort", record)>>
             ELSE <<>>
        ELSE own \o inherited

\* the lines one call of get_logger().debug/info/warning/error writes
LogLines(levelno, msg) ==
    IF isEnabledFor(levelno)
    THEN callHandlers([levelno |-> levelno, msg |-> msg])
    ELSE <<>>

-----------------------------------------------------------------------------
(* setup_logger *)

\* DeclaredLevel without the call of upper()
DeclaredLevelCaseSensitive(log_level) ==
    IF log_level = <<"D","E","B","U","G">> THEN DEBUG
    ELSE IF log_level = <<"I","N","F","O">> THEN INFO
    ELSE WARN

\* the level setup_logger declares for a level spec
DeclaredLevel(log_level) ==
    LET declared == upper(log_level)
    IN  IF declared = <<"D","E","B","U","G">> THEN DEBUG
        ELSE IF declared = <<"I","N","F","O">> THEN INFO
        ELSE WARN

\* None has no upper(): the call raises AttributeError
SetupRaises(log_level) == log_level = None

\* the formatter the new handler is given
FormatterFor(no_color) == IF no_color THEN "plain" ELSE "colored"

\* logging.basicConfig(level=level) does nothing once the root logger has a
\* handler; otherwise it gives the root a handler and sets its level
setup_logger(log_level, no_color) ==
    /\ ~SetupRaises(log_level)
    /\ handlers' = Append(handlers, FormatterFor(no_color))
    /\ propagate' = FALSE
    /\ IF rootHandlers = 0
       THEN /\ rootHandlers' = 1
            /\ rootLevel' = DeclaredLevel(log_level[1])
       ELSE UNCHANGED <<rootHandlers, rootLevel>>

-----------------------------------------------------------------------------
(* command_exists and check_requirements *)

\* command_exists with the test inverted (which(name) is None)
command_exists_inverted(name) == name \notin PATH

command_exists(name) == name \in PATH

MissingMessage(req) ==
    <<"Missing required program: ", req.name, "\t", req.url>>

\* the loop of check_requirements from entry i on: the messages handed to
\* log_error and the value returned
RECURSIVE CheckFrom(_, _)
CheckFrom(reqs, i) ==
    IF i > Len(reqs) THEN [ret |-> TRUE, diags |-> <<>>]
    ELSE IF ~command_exists(reqs[i].name)
         THEN [ret |-> FALSE, diags |-> <<MissingMessage(reqs[i])>>]
         ELSE CheckFrom(reqs, i + 1)

check_requirements(reqs) == CheckFrom(reqs, 1)

RECURSIVE LinesOf(_)
LinesOf(diags) ==
    IF diags = <<>> THEN <<>>
    ELSE LogLines(ERROR, Head(diags)) \o LinesOf(Tail(diags))

-----------------------------------------------------------------------------
(* The state after import: nothing is configured.  The root logger's level *)
(* is WARNING, no logger has a handler, get_logger() propagates.           *)

NoCall ==
    [op |-> "none", levelno |-> NOTSET, msg |-> <<>>, reqs |-> <<>>,
     ret |-> TRUE, diags |-> <<>>, before |-> 0, nh |-> 0]

\* the record of a call made in the current state
Call(op, levelno, msg, reqs, ret, diags) ==
    [op |-> op, levelno |-> levelno, msg |-> msg, reqs |-> reqs,
     ret |-> ret, diags |-> diags, before |-> Len(out), nh |-> Len(handlers)]

Fresh ==
    /\ args = <<>>
    /\ PATH \in SUBSET Programs
    /\ handlers = <<>>
    /\ propagate = TRUE
    /\ rootLevel = WARN
    /\ rootHandlers = 0
    /\ out = <<>>
    /\ last = NoCall
    /\ events = <<>>
    /\ exitStatus = <<>>
    /\ ncalls = 0

-----------------------------------------------------------------------------
(* The functions called directly, in any order *)

Messages == { <<"Testing">>, <<"Something bad has happened">> }

\* the level specs the direct calls pass
DirectLevelSpecs ==
    { <<"d","e","b","u","g">>, <<"D","E","B","U","G">>, <<"I","n","f","o">>,
      <<"w","a","r","n">>, <<"b","o","g","u","s">>, <<>> }

Init == pc = "lib" /\ Fresh

SetupLogger ==
    /\ pc = "lib" /\ ncalls < MaxCalls
    /\ \E log_level \in DirectLevelSpecs, no_color \in BOOLEAN :
          setup_logger(Some(log_level), no_color)
    /\ last' = Call("setup_logger", NOTSET, <<>>, <<>>, TRUE, <<>>)
    /\ ncalls' = ncalls + 1
    /\ UNCHANGED <<pc, args, PATH, out, events, exitStatus>>

Emit(op, levelno) ==
    /\ \E msg \in Messages :
          /\ out' = out \o LogLines(levelno, msg)
          /\ last' = Call(op, levelno, msg, <<>>, TRUE, <<>>)
    /\ ncalls' = ncalls + 1
    /\ UNCHANGED <<pc, args, PATH, handlers, propagate, rootLevel,
                   rootHandlers, events, exitStatus>>

LogInfo ==
    /\ pc = "lib" /\ ncalls < MaxCalls
    /\ Emit("log_info", INFO)

LogWarn ==
    /\ pc = "lib" /\ ncalls < MaxCalls
    /\ Emit("log_warn", WARN)

LogError ==
    /\ pc = "lib" /\ ncalls < MaxCalls
    /\ Emit("log_error", ERROR)

LogDebug ==
    /\ pc = "lib" /\ ncalls < MaxCalls
    /\ Emit("log_debug", DEBUG)


CheckRequirements ==
    /\ pc = "check" /\ ncalls < MaxChecks
    /\ \E reqs \in ReqLists :
          LET r == check_requirements(reqs)
          IN  /\ out' = out \o LinesOf(r.diags)
              /\ last' = Call("check_requirements", ERROR, <<>>, reqs, r.ret, r.diags)
    /\ ncalls' = ncalls + 1
    /\ UNCHANGED <<pc, args, PATH, handlers, propagate, rootLevel,
                   rootHandlers, events, exitStatus>>

\* setup_logger ahead of, or between, the runs of check_requirements
CheckSetupLogger ==
    /\ pc = "check" /\ ncalls < MaxChecks
    /\ \E log_level \in DirectLevelSpecs, no_color \in BOOLEAN :
          setup_logger(Some(log_level), no_color)
    /\ last' = Call("setup_logger", NOTSET, <<>>, <<>>, TRUE, <<>>)
    /\ ncalls' = ncalls + 1
    /\ UNCHANGED <<pc, args, PATH, out, events, exitStatus>>

Next ==
    \/ SetupLogger
    \/ LogInfo
    \/ LogWarn
    \/ LogError
    \/ LogDebug

Spec == Init /\ [][Next]_vars

CheckInit == pc = "check" /\ Fresh

CheckNext ==
    \/ CheckSetupLogger
    \/ CheckRequirements

SpecCheck == CheckInit /\ [][CheckNext]_vars

-----------------------------------------------------------------------------
(* main *)

\* ExitStatusOf for an exit() that drops its argument
ExitStatusDropped(code) == 0

\* the status the process ends with after exit(code)
ExitStatusOf(code) == code % 256

Traceback ==
    [text |-> <<"AttributeError: 'NoneType' object has no attribute 'upper'">>,
     by |-> "traceback", levelno |-> NOTSET, msg |-> <<>>]

MainInit == pc = "parse_args" /\ Fresh

\* parse_args: --log-level is a string or absent (None), --no-color a flag
ParseArgs ==
    /\ pc = "parse_args"
    /\ \E log_level \in {None} \cup {Some(s) : s \in LevelSpecs},
          no_color \in BOOLEAN :
          args' = <<[log_level |-> log_level, no_color |-> no_color]>>
    /\ pc' = "setup_logger"
    /\ events' = Append(events, "parse_args")
    /\ UNCHANGED <<PATH, handlers, propagate, rootLevel, rootHandlers, out,
                   last, exitStatus, ncalls>>

\* setup_logger(args.log_level, args.no_color); an exception it raises is
\* caught nowhere and ends the process with a traceback and status 1
MainSetupLogger ==
    /\ pc = "setup_logger"
    /\ last' = Call("setup_logger", NOTSET, <<>>, <<>>, TRUE, <<>>)
    /\ IF SetupRaises(args[1].log_level)
       THEN /\ pc' = "exited"
            /\ exitStatus' = <<1>>
            /\ out' = Append(out, Traceback)
            /\ events' = Append(events, "setup_logger raised")
            /\ UNCHANGED <<handlers, propagate, rootLevel, rootHandlers>>
       ELSE /\ setup_logger(args[1].log_level, args[1].no_color)
            /\ pc' = "check_requirements"
            /\ events' = Append(events, "setup_logger")
            /\ UNCHANGED <<out, exitStatus>>
    /\ UNCHANGED <<args, PATH, ncalls>>

MainCheckRequirements ==
    /\ pc = "check_requirements"
    /\ LET r == check_requirements(REQUIREMENTS)
       IN  /\ out' = out \o LinesOf(r.diags)
           /\ last' = Call("check_requirements", ERROR, <<>>, REQUIREMENTS, r.ret, r.diags)
           /\ pc' = IF r.ret THEN "log_warn" ELSE "exit"
           /\ events' = Append(events, IF r.ret THEN "check_requirements=True"
                                                ELSE "check_requirements=False")
    /\ UNCHANGED <<args, PATH, handlers, propagate, rootLevel, rootHandlers,
                   exitStatus, ncalls>>

MainExit ==
    /\ pc = "exit"
    /\ exitStatus' = <<ExitStatusOf(-1)>>
    /\ pc' = "exited"
    /\ events' = Append(events, "exit")
    /\ UNCHANGED <<args, PATH, handlers, propagate, rootLevel, rootHandlers,
                   out, last, ncalls>>

MainLog(op, levelno, msg, then) ==
    /\ out' = out \o LogLines(levelno, msg)
    /\ last' = Call(op, levelno, msg, <<>>, TRUE, <<>>)
    /\ pc' = then
    /\ events' = Append(events, op)
    /\ UNCHANGED <<args, PATH, handlers, propagate, rootLevel, rootHandlers,
                   exitStatus, ncalls>>

MainLogWarn ==
    /\ pc = "log_warn"
    /\ MainLog("log_warn", WARN, <<"Something bad has happened">>, "log_error")

MainLogError ==
    /\ pc = "log_error"
    /\ MainLog("log_error", ERROR, <<"Something even worse has happened">>, "log_info")

MainLogInfo ==
    /\ pc = "log_info"
    /\ MainLog("log_info", INFO, <<"Program requirements satisfied!">>, "log_debug")

MainLogDebug ==
    /\ pc = "log_debug"
    /\ MainLog("log_debug", DEBUG, <<"Testing">>, "return")


\* main returns and the interpreter ends with status 0
MainReturn ==
    /\ pc = "return"
    /\ exitStatus' = <<0>>
    /\ pc' = "exited"
    /\ events' = Append(events, "return")
    /\ UNCHANGED <<args, PATH, handlers, propagate, rootLevel, rootHandlers,
                   out, last, ncalls>>

MainNext ==
    \/ ParseArgs
    \/ MainSetupLogger
    \/ MainCheckRequirements
    \/ MainExit
    \/ MainLogWarn
    \/ MainLogError
    \/ MainLogInfo
    \/ MainLogDebug
    \/ MainReturn

SpecMain == MainInit /\ [][MainNext]_vars

-----------------------------------------------------------------------------
(* Properties *)

EmitOps == {"log_debug", "log_info", "log_warn", "log_error"}

\* the severities, least first
Severities == <<DEBUG, INFO, WARN, ERROR>>

Rank(levelno) == CHOOSE i \in DOMAIN Severities : Severities[i] = levelno

Has(e) == \E i \in DOMAIN events : events[i] = e

Missing(reqs) == SelectSeq(reqs, LAMBDA r : r.name \notin PATH)

\* C1: check_requirements does not short-circuit: the ERROR diagnostics of a
\* run are exactly the missing entries of the list, in declaration order,
\* one per missing entry, each with the entry's name and reference, and
\* none for a resolvable entry.
C1_AllMissingReported ==
    last.op = "check_requirements" =>
        LET m == Missing(last.reqs)
        IN  last.diags =
              [i \in 1..Len(m) |->
                 <<"Missing required program: ", m[i].name, "\t", m[i].url>>]

\* C2: check_requirements returns False if and only if some entry of the
\* list is not resolvable; on the empty list it returns True and writes
\* nothing.
C2_FalseIffSomeMissing ==
    last.op = "check_requirements" =>
        /\ (last.ret = FALSE) <=>
               (\E i \in DOMAIN last.reqs : last.reqs[i].name \notin PATH)
        /\ last.reqs = <<>> =>
               (last.ret = TRUE /\ last.diags = <<>> /\ Len(out) = last.before)

C2_Witness ==
    /\ last.op = "check_requirements"
    /\ Len(last.reqs) >= 2
    /\ last.reqs[1].name \in PATH
    /\ last.reqs[2].name \notin PATH
    /\ last.ret = FALSE

\* C3: once setup_logger has installed a threshold T, a log_* call of
\* severity S writes to the sink if and only if S >= T in the order
\* DEBUG < INFO < WARN < ERROR.
C3_WritesIffAtLeastThreshold ==
    (last.op \in EmitOps /\ last.nh >= 1) =>
        ((Len(out) > last.before) <=> (Rank(last.levelno) >= Rank(rootLevel)))

C3_Witness ==
    /\ last.op = "log_info"
    /\ last.nh >= 1
    /\ rootLevel = INFO
    /\ Len(out) > last.before

DebugCasings == <<{"d","D"}, {"e","E"}, {"b","B"}, {"u","U"}, {"g","G"}>>
InfoCasings == <<{"i","I"}, {"n","N"}, {"f","F"}, {"o","O"}>>

IsCasing(s, word) ==
    Len(s) = Len(word) /\ \A i \in DOMAIN word : s[i] \in word[i]

\* C4: in main, setup_logger maps the level spec to the threshold without
\* regard to case: any casing of "debug" gives DEBUG, any casing of "info"
\* gives INFO, every other string gives WARN.
C4_LevelSpecMapping ==
    (pc \notin {"parse_args", "setup_logger"} /\ args[1].log_level # None) =>
        LET s == args[1].log_level[1]
        IN  rootLevel = IF IsCasing(s, DebugCasings) THEN DEBUG
                        ELSE IF IsCasing(s, InfoCasings) THEN INFO
                        ELSE WARN

C4_Witness ==
    /\ pc = "check_requirements"
    /\ args[1].log_level = Some(<<"d","E","b","U","g">>)
    /\ rootLevel = DEBUG

\* C5: when --log-level is absent, setup_logger completes without failing
\* the process and installs the threshold WARN.
C5_AbsentLevelInstallsWarn ==
    (pc \notin {"parse_args", "setup_logger"} /\ args[1].log_level = None) =>
        /\ ~Has("setup_logger raised")
        /\ Len(handlers) = 1
        /\ rootLevel = WARN

\* C6: after any number (>= 1) of setup_logger calls exactly one sink is
\* installed, and every log_* call whose severity passes the threshold
\* writes exactly one line.
C6_OneSinkOneLine ==
    (last.op \in EmitOps /\ last.nh >= 1 /\ Rank(last.levelno) >= Rank(rootLevel)) =>
        (last.nh = 1 /\ Len(out) = last.before + 1)

TaskOps == {"log_warn", "log_error", "log_info", "log_debug"}

TaskMessages ==
    { <<"Something bad has happened">>, <<"Something even worse has happened">>,
      <<"Program requirements satisfied!">>, <<"Testing">> }

\* C7: in main, check_requirements runs only after setup_logger has
\* completed; when it returns False the process ends with a non-zero status
\* and none of the log calls that follow the check runs; when it returns
\* True the run ends with status 0.
C7_MainOrder ==
    /\ \A i \in DOMAIN events :
          events[i] \in {"check_requirements=True", "check_requirements=False"} =>
              \E j \in 1..(i - 1) : events[j] = "setup_logger"
    /\ Has("check_requirements=False") =>
          /\ pc \in {"exit", "exited"}
          /\ \A i \in DOMAIN events : events[i] \notin TaskOps
          /\ \A k \in DOMAIN out : out[k].msg \notin TaskMessages
          /\ pc = "exited" => (exitStatus # <<>> /\ exitStatus[1] # 0)
    /\ (Has("check_requirements=True") /\ pc = "exited") => exitStatus = <<0>>

C7_Witness ==
    /\ pc = "exited"
    /\ Has("check_requirements=False")
    /\ exitStatus = <<255>>

Label(levelno) ==
    CASE levelno = DEBUG -> <<"[", "D", "E", "B", "U", "G", " ", " ", "]">>
      [] levelno = INFO -> <<"[", "I", "N", "F", "O", " ", " ", " ", "]">>
      [] levelno = WARN -> <<"[", "W", "A", "R", "N", "I", "N", "G", "]">>
      [] levelno = ERROR -> <<"[", "E", "R", "R", "O", "R", " ", " ", "]">>

\* the colour scheme: for each severity the start code of the level label
\* and of the message body; RESET ends both
ColorScheme(levelno) ==
    CASE levelno = DEBUG -> [label |-> BLUE, body |-> BLUE]
      [] levelno = INFO -> [label |-> GRAY, body |-> GRAY]
      [] levelno = WARN -> [label |-> YELLOW \o BOLD, body |-> YELLOW]
      [] levelno = ERROR -> [label |-> RED \o BOLD, body |-> RED]

HasEscape(text) == \E i \in DOMAIN text : text[i] = ESC

\* C8: a line written through a handler set up with no_color holds no ANSI
\* escape and is the bracketed level label, left-justified to 7 characters,
\* a space and the raw message; a line written through a colourised handler
\* has, for each of the four severities, the label wrapped in that
\* severity's start code and RESET and the message wrapped in its body code
\* and RESET.
C8_Presentation ==
    \A k \in DOMAIN out :
        LET l == out[k]
            style == ColorScheme(l.levelno)
        IN  /\ l.by = "plain" =>
                  /\ ~HasEscape(l.text)
                  /\ Len(Label(l.levelno)) = 9
                  /\ l.text = Label(l.levelno) \o <<" ">> \o l.msg
            /\ l.by = "colored" =>
                  /\ style.label[1] = ESC /\ style.body[1] = ESC
                  /\ l.text = style.label \o Label(l.levelno) \o RESET \o <<" ">>
                               \o style.body \o l.msg \o RESET

C8_Witness ==
    \E k \in DOMAIN out : out[k].by = "colored" /\ out[k].levelno = DEBUG

\* C9: after the first setup_logger call no later setup_logger or log_*
\* call changes the threshold, and every line written afterwards has the
\* presentation mode (colourised or plain) the first call set.
C9_ConfigWrittenOnce ==
    [][Len(handlers) >= 1 =>
          /\ rootLevel' = rootLevel
          /\ \A k \in DOMAIN out' :
                k > Len(out) => out'[k].by = handlers[1]]_vars

\* C10: a log_* call made before any setup_logger call writes nothing, for
\* every severity.
C10_SilentBeforeSetup ==
    (last.op \in EmitOps /\ last.nh = 0) => Len(out) = last.before

====
